---- MODULE Spec2Model ----
(***************************************************************************)
(* What-if analysis routines of the try-what-if notebooks: data_table,     *)
(* goal_seek, simulate and get_sim_results_df, operating on a mutable      *)
(* model object (BookstoreModel) through setattr / getattr / deepcopy.     *)
(*                                                                         *)
(* Numbers are exact fixed-point values: the integer v stands for the      *)
(* real v / Q.  Q has enough fractional bits for every midpoint that       *)
(* bisection can form from integer end points in MaxN iterations, and for  *)
(* the products the model outputs take of them, so the arithmetic of the   *)
(* model is the exact arithmetic the floating point code performs on       *)
(* these inputs.                                                           *)
(***************************************************************************)
EXTENDS Integers, Sequences, FiniteSets, TLC

\* ------------------------------------------------------------------ bounds
\* Largest iteration limit N handed to goal_seek.
MaxN == 3
\* Largest number of values in one scenario input sequence.
MaxVals == 2
\* Largest number of replications (length of a random input sequence).
MaxReps == 3

\* ------------------------------------------------------------- fixed point
FracBits == 2 * (MaxN + 1)
Q == 2 ^ FracBits
\* The real number i (an integer) and the real number h / 2 as fixed-point values.
R(i) == i * Q
Half(h) == (h * Q) \div 2

Sgn(x) == IF x > 0 THEN 1 ELSE IF x < 0 THEN -1 ELSE 0
\* x * y of two fixed-point values, rescaled; exact on the values that occur.
Mul(x, y) == (x * y) \div Q
\* The code only ever compares a product (f - target) * (g - target) with 0.
\* The double product of two finite values of this size has exactly the sign
\* of the real product; it is kept as that sign (-1, 0, 1) so that the check
\* does not depend on the width of the model checker's integers.
SignOfProduct(x, y) == Sgn(x) * Sgn(y)
Min2(x, y) == IF x <= y THEN x ELSE y
Max2(x, y) == IF x >= y THEN x ELSE y
Add2(x, y) == x + y
Sub2(x, y) == x - y

\* --------------------------------------------------------------- values
\* A Python value held by an attribute or returned by an output method: a
\* scalar number, a numpy array of numbers, or (internally) the exception an
\* evaluation raised.
Num(x) == [tag |-> "num", val |-> x]
Arr(s) == [tag |-> "arr", val |-> s]
Exc(e) == [tag |-> "exc", val |-> e]
IsNum(v) == v.tag = "num"
IsArr(v) == v.tag = "arr"
IsExc(v) == v.tag = "exc"

\* The binary elementwise operations the outputs use, by name.
ApplyOp(op, a, b) ==
    CASE op = "*" -> Mul(a, b)
      [] op = "+" -> Add2(a, b)
      [] op = "-" -> Sub2(a, b)
      [] op = "minimum" -> Min2(a, b)
      [] op = "maximum" -> Max2(a, b)

\* A broadcasting that pairs element i of one array with element n + 1 - i of
\* the other.
BroadcastCrossed(op, x, y) ==
    IF IsExc(x) THEN x
    ELSE IF IsExc(y) THEN y
    ELSE IF IsNum(x) /\ IsNum(y) THEN Num(ApplyOp(op, x.val, y.val))
    ELSE IF IsNum(x) THEN Arr([i \in 1..Len(y.val) |-> ApplyOp(op, x.val, y.val[i])])
    ELSE IF IsNum(y) THEN Arr([i \in 1..Len(x.val) |-> ApplyOp(op, x.val[i], y.val)])
    ELSE IF Len(x.val) = Len(y.val)
        THEN Arr([i \in 1..Len(x.val) |-> ApplyOp(op, x.val[i], y.val[Len(x.val) + 1 - i])])
    ELSE Exc("ValueError")

\* numpy broadcasting of a binary elementwise operation on two values: scalar
\* with scalar, scalar with array, arrays of equal length (or of length 1);
\* arrays of other lengths raise ValueError.  An exception in an operand
\* propagates.
BroadcastValues(op, x, y) ==
    IF IsExc(x) THEN x
    ELSE IF IsExc(y) THEN y
    ELSE IF IsNum(x) /\ IsNum(y) THEN Num(ApplyOp(op, x.val, y.val))
    ELSE IF IsNum(x) THEN Arr([i \in 1..Len(y.val) |-> ApplyOp(op, x.val, y.val[i])])
    ELSE IF IsNum(y) THEN Arr([i \in 1..Len(x.val) |-> ApplyOp(op, x.val[i], y.val)])
    ELSE IF Len(x.val) = Len(y.val)
        THEN Arr([i \in 1..Len(x.val) |-> ApplyOp(op, x.val[i], y.val[i])])
    ELSE IF Len(x.val) = 1
        THEN Arr([i \in 1..Len(y.val) |-> ApplyOp(op, x.val[1], y.val[i])])
    ELSE IF Len(y.val) = 1
        THEN Arr([i \in 1..Len(x.val) |-> ApplyOp(op, x.val[i], y.val[1])])
    ELSE Exc("ValueError")
\* The same, with each operand evaluated once (as Python evaluates the
\* operands of an operation before it applies it).
Broadcast(op, x, y) ==
    CHOOSE r \in {BroadcastValues(op, p[1], p[2]) : p \in {<<x, y>>}} : TRUE

\* ------------------------------------------------------------ the models
\* An object is its class and its attribute dictionary (vars(obj)).
\* setattr(obj, key, value): creates the attribute when it does not exist.
SetAttr(d, key, v) == [k \in (DOMAIN d) \cup {key} |-> IF k = key THEN v ELSE d[k]]

\* An update that overwrites an attribute only when the new value is not
\* smaller than the one it holds.
UpdateIfLarger(d, param_dict) ==
    [k \in (DOMAIN d) \cup (DOMAIN param_dict) |->
        IF k \in DOMAIN param_dict
           /\ (k \notin DOMAIN d \/ ~IsNum(d[k]) \/ ~IsNum(param_dict[k])
               \/ d[k].val <= param_dict[k].val)
        THEN param_dict[k] ELSE d[k]]

\* BookstoreModel.update(param_dict): for key in param_dict: setattr(self, key, param_dict[key])
Update(d, param_dict) ==
    [k \in (DOMAIN d) \cup (DOMAIN param_dict) |->
        IF k \in DOMAIN param_dict THEN param_dict[k] ELSE d[k]]

\* BookstoreModel(unit_cost, selling_price, unit_refund, order_quantity, demand)
BookstoreModel(uc, sp, ur, oq, dm) ==
    [cls |-> "BookstoreModel",
     dict |-> [unit_cost |-> Num(uc), selling_price |-> Num(sp), unit_refund |-> Num(ur),
               order_quantity |-> Num(oq), demand |-> Num(dm)]]

\* The attributes the constructor of a class sets: the parameters of the model.
Parameters(cls) ==
    CASE cls = "BookstoreModel" ->
            {"unit_cost", "selling_price", "unit_refund", "order_quantity", "demand"}
      [] cls = "QuadModel" -> {"x"}
      [] cls = "SumModel" -> {"a", "b"}

BookstoreOutputs == {"order_cost", "sales_revenue", "refund_revenue", "total_revenue", "profit"}

order_cost(d) == Broadcast("*", d.unit_cost, d.order_quantity)
sales_revenue(d) ==
    Broadcast("*", Broadcast("minimum", d.order_quantity, d.demand), d.selling_price)
refund_revenue(d) ==
    Broadcast("*", Broadcast("maximum", Num(0), Broadcast("-", d.order_quantity, d.demand)),
              d.unit_refund)
total_revenue(d) == Broadcast("+", sales_revenue(d), refund_revenue(d))
profit(d) ==
    Broadcast("-", Broadcast("+", sales_revenue(d), refund_revenue(d)), order_cost(d))

\* A model object whose one output is simple_function of its attribute x:
\* x ** 2 - 3 * x - 5
simple_function(x) ==
    Broadcast("-", Broadcast("-", Broadcast("*", x, x), Broadcast("*", Num(R(3)), x)),
              Num(R(5)))
QuadModel(x) == [cls |-> "QuadModel", dict |-> [x |-> Num(x)]]

\* A model object with parameters a, b and the output sum = a + b.
SumModel(a, b) == [cls |-> "SumModel", dict |-> [a |-> Num(a), b |-> Num(b)]]
sum(d) == Broadcast("+", d.a, d.b)

Methods(cls) ==
    CASE cls = "BookstoreModel" -> BookstoreOutputs
      [] cls = "QuadModel" -> {"simple_function"}
      [] cls = "SumModel" -> {"sum"}

\* getattr(obj, name)(): the output method called on the current attributes;
\* AttributeError when the object has no such method.
GetOutput(obj, name) ==
    IF name \notin Methods(obj.cls) THEN Exc("AttributeError")
    ELSE CASE name = "order_cost" -> order_cost(obj.dict)
           [] name = "sales_revenue" -> sales_revenue(obj.dict)
           [] name = "refund_revenue" -> refund_revenue(obj.dict)
           [] name = "total_revenue" -> total_revenue(obj.dict)
           [] name = "profit" -> profit(obj.dict)
           [] name = "simple_function" -> simple_function(obj.dict.x)
           [] name = "sum" -> sum(obj.dict)

\* ---------------------------------------------------------------- the heap
\* Object references: the caller's model, and the clone a call makes.
ModelRef == "model"
CloneRef == "model_clone"
NoObj == [cls |-> "none", dict |-> <<>>]

\* A copy that is no copy: the same object under a second name.
Alias(h, ref) == [ref |-> ref, heap |-> h]

\* copy.deepcopy(model): a fresh object with a copy of every attribute.
DeepCopy(h, ref) == [ref |-> CloneRef, heap |-> [h EXCEPT ![CloneRef] = h[ref]]]

\* setattr on the object a reference names.
SetAttrAt(h, ref, key, v) == [h EXCEPT ![ref].dict = SetAttr(@, key, v)]
UpdateAt(h, ref, param_dict) == [h EXCEPT ![ref].dict = Update(@, param_dict)]


\* ------------------------------------------------------------------ state
VARIABLES
    heap,         \* object reference -> object: the caller's model and the call's clone
    pc,           \* where the running call is; "idle" between calls
    args,         \* the arguments of the running (or last) call
    model_clone,  \* the reference the local variable model_clone holds
    loc,          \* the other local variables of the running call
    ret,          \* what the last call returned (or raised)
    evals         \* the output evaluations the call has made so far, in order

vars == <<heap, pc, args, model_clone, loc, ret, evals>>

NoRet == [kind |-> "none"]
PyNone == [kind |-> "None"]
Number(x) == [kind |-> "num", val |-> x]
Raised(e) == [kind |-> "raise", val |-> e]
NoArgs == [fn |-> "none"]
NoLoc == [fn |-> "none"]

\* The caller's model objects: the bookstore of the notebooks (unit cost 7.50,
\* selling price 10.00, unit refund 2.50) with small quantities, and the two
\* one-output models.
Models ==
    {BookstoreModel(Half(15), R(10), Half(5), R(3), R(3)),
     BookstoreModel(Half(15), R(10), Half(5), R(4), R(2)),
     QuadModel(R(0)),
     SumModel(R(0), R(0))}

Init ==
    /\ heap \in {[r \in {ModelRef, CloneRef} |-> IF r = ModelRef THEN m ELSE NoObj] : m \in Models}
    /\ pc = "idle"
    /\ args = NoArgs
    /\ model_clone = "none"
    /\ loc = NoLoc
    /\ ret = NoRet
    /\ evals = <<>>

\* ---------------------------------------------------------------- goal_seek
\* The (integer) bracket end points and the names a caller passes, per class.
BracketEnds(cls) ==
    IF cls = "BookstoreModel" THEN {0, 3, 4, 8} ELSE {-2, 0, 1, 10}
GoalOutputs(cls) ==
    IF cls = "BookstoreModel" THEN {"profit", "order_cost", "no_such_output"} ELSE Methods(cls)
GoalInputs(cls) ==
    CASE cls = "BookstoreModel" -> {"demand", "order_quantity", "no_such_input"}
      [] cls = "QuadModel" -> {"x"}
      [] cls = "SumModel" -> {"a"}
GoalTargets(cls) ==
    IF cls = "BookstoreModel" THEN {R(0), R(5)} ELSE {R(0)}

\* A cut at the first quarter of the interval.
MidpointAtQuarter(a, b) == a + ((b - a) \div 4)

\* m_n = (a_n + b_n)/2
Midpoint(a, b) == (a + b) \div 2

\* A loop that runs one iteration too many.
LoopRunsOneMore(n, N) == n + 1 \in 1..(N + 1)

\* for n in range(1, N+1): the loop has a next iteration after n completed ones.
LoopRuns(n, N) == n + 1 \in 1..N

\* The first three statements of goal_seek: the clone is made.
GoalSeekCall(obj_fn, target, by_changing, a, b, N) ==
    /\ pc = "idle"
    /\ LET c == DeepCopy(heap, ModelRef) IN
        /\ heap' = c.heap
        /\ model_clone' = c.ref
    /\ args' = [fn |-> "goal_seek", obj_fn |-> obj_fn, target |-> target,
                by_changing |-> by_changing, a |-> a, b |-> b, N |-> N]
    /\ loc' = [fn |-> "goal_seek", a_n |-> a, b_n |-> b, m_n |-> a, n |-> 0]
    /\ pc' = "Validating"
    /\ ret' = NoRet
    /\ evals' = <<>>

\* An evaluation that reads the output without setting the input first.
EvalWithoutSet(h, x) ==
    [heap |-> h, f |-> GetOutput(h[model_clone], args.obj_fn)]

\* One evaluation of the objective: setattr(model_clone, by_changing, x), then
\* getattr(model_clone, obj_fn)().  The state of the clone after it and the value.
EvalAt(h, x) ==
    LET h1 == SetAttrAt(h, model_clone, args.by_changing, Num(x)) IN
    [heap |-> h1, f |-> GetOutput(h1[model_clone], args.obj_fn)]

\* The bracket test that wrongly lets an end point on the target through.
BracketFailsStrict(f_a_0, f_b_0, target) == SignOfProduct(f_a_0 - target, f_b_0 - target) > 0

\* if (f_a_0 - target) * (f_b_0 - target) >= 0: return None
BracketFails(f_a_0, f_b_0, target) == SignOfProduct(f_a_0 - target, f_b_0 - target) >= 0

\* The precondition check: f at a, f at b, and the bracket test.
Validate ==
    /\ pc = "Validating"
    /\ LET ea == EvalAt(heap, args.a)
           eb == EvalAt(ea.heap, args.b)
       IN IF IsExc(ea.f)
          THEN /\ heap' = ea.heap
               /\ evals' = evals
               /\ pc' = "raised"
               /\ ret' = Raised(ea.f.val)
          ELSE /\ heap' = eb.heap
               /\ evals' = evals \o <<args.a, args.b>>
               /\ IF BracketFails(ea.f.val, eb.f.val, args.target)
                  THEN pc' = "Failed" /\ ret' = PyNone
                  ELSE pc' = "Bisecting" /\ ret' = ret
    /\ UNCHANGED <<args, model_clone, loc>>

\* The branch the iteration takes, from the three objective values:
\* "left" (b_n = m_n), "right" (a_n = m_n), "exact" (return m_n), "fail" (return None).
\* A version that tests the right half first.
BranchRightFirst(f_a_n, f_m_n, f_b_n, target) ==
    IF SignOfProduct(f_b_n - target, f_m_n - target) < 0 THEN "left"
    ELSE IF SignOfProduct(f_a_n - target, f_m_n - target) < 0 THEN "right"
    ELSE IF f_m_n = target THEN "exact"
    ELSE "fail"

\* A version with a tolerance in place of the exact test.
BranchWithTolerance(f_a_n, f_m_n, f_b_n, target) ==
    IF f_m_n - target < R(2) /\ target - f_m_n < R(2) THEN "exact"
    ELSE IF SignOfProduct(f_a_n - target, f_m_n - target) < 0 THEN "left"
    ELSE IF SignOfProduct(f_b_n - target, f_m_n - target) < 0 THEN "right"
    ELSE "fail"

Branch(f_a_n, f_m_n, f_b_n, target) ==
    IF SignOfProduct(f_a_n - target, f_m_n - target) < 0 THEN "left"
    ELSE IF SignOfProduct(f_b_n - target, f_m_n - target) < 0 THEN "right"
    ELSE IF f_m_n = target THEN "exact"
    ELSE "fail"

\* One iteration of the main loop.
Bisect ==
    /\ pc = "Bisecting"
    /\ LoopRuns(loc.n, args.N)
    /\ LET m_n == Midpoint(loc.a_n, loc.b_n)
           em == EvalAt(heap, m_n)
           ea == EvalAt(em.heap, loc.a_n)
           eb == EvalAt(ea.heap, loc.b_n)
           br == Branch(ea.f.val, em.f.val, eb.f.val, args.target)
       IN /\ heap' = eb.heap
          /\ evals' = evals \o <<m_n, loc.a_n, loc.b_n>>
          /\ CASE br = "left" ->
                    /\ loc' = [loc EXCEPT !.b_n = m_n, !.m_n = m_n, !.n = loc.n + 1]
                    /\ pc' = pc /\ ret' = ret
               [] br = "right" ->
                    /\ loc' = [loc EXCEPT !.a_n = m_n, !.m_n = m_n, !.n = loc.n + 1]
                    /\ pc' = pc /\ ret' = ret
               [] br = "exact" ->
                    /\ loc' = [loc EXCEPT !.m_n = m_n, !.n = loc.n + 1]
                    /\ pc' = "Converged" /\ ret' = Number(m_n)
               [] br = "fail" ->
                    /\ loc' = [loc EXCEPT !.m_n = m_n, !.n = loc.n + 1]
                    /\ pc' = "Failed" /\ ret' = PyNone
    /\ UNCHANGED <<args, model_clone>>

\* The value returned when the loop is exhausted.
\* A version that returns the left end point.
LimitValueLeft(a_n, b_n) == a_n

\* return (a_n + b_n)/2
LimitValue(a_n, b_n) == Midpoint(a_n, b_n)

\* The loop is exhausted: the midpoint of the final interval is returned.
ReachLimit ==
    /\ pc = "Bisecting"
    /\ ~LoopRuns(loc.n, args.N)
    /\ pc' = "IterationLimitReached"
    /\ ret' = Number(LimitValue(loc.a_n, loc.b_n))
    /\ UNCHANGED <<heap, args, model_clone, loc, evals>>

\* A caller's call of goal_seek, with any of the arguments above.
CallGoalSeek ==
    /\ pc = "idle"
    /\ \E obj_fn \in GoalOutputs(heap[ModelRef].cls), target \in GoalTargets(heap[ModelRef].cls),
          by_changing \in GoalInputs(heap[ModelRef].cls),
          a \in BracketEnds(heap[ModelRef].cls), b \in BracketEnds(heap[ModelRef].cls),
          N \in 0..MaxN :
            GoalSeekCall(obj_fn, target, by_changing, R(a), R(b), N)

GoalSeek == CallGoalSeek \/ Validate \/ Bisect \/ ReachLimit

\* ------------------------------------------------------------ ParameterGrid
\* A dict of str to sequence is the sequence of its (key, values) items in
\* insertion order, the keys distinct.  The alphabetical order of the names:
NameOrder ==
    <<"a", "b", "demand", "no_such_input", "order_quantity", "selling_price",
      "unit_cost", "unit_refund", "x">>
Rank(name) == CHOOSE i \in 1..Len(NameOrder) : NameOrder[i] = name
KeyBefore(item1, item2) == Rank(item1[1]) < Rank(item2[1])

\* The points of sorted items, by nested iteration (itertools.product): the
\* first key varies slowest, the last key fastest.  No items: one empty point.
RECURSIVE Product(_)
Product(items) ==
    IF items = <<>> THEN << <<>> >>
    ELSE LET key == Head(items)[1]
             values == Head(items)[2]
             rest == Product(Tail(items))
         IN [j \in 1..(Len(values) * Len(rest)) |->
                (key :> values[((j - 1) \div Len(rest)) + 1])
                    @@ rest[((j - 1) % Len(rest)) + 1]]

\* A grid that pairs the values up position by position instead of crossing them.
RECURSIVE Zipped(_)
Zipped(items) ==
    IF items = <<>> THEN << <<>> >>
    ELSE IF Len(items) = 1 THEN Product(items)
    ELSE LET key == Head(items)[1]
             values == Head(items)[2]
             rest == Zipped(Tail(items))
         IN [j \in 1..Min2(Len(values), Len(rest)) |-> (key :> values[j]) @@ rest[j]]
ZippedGrid(scenario_inputs) == Zipped(SortSeq(scenario_inputs, KeyBefore))

\* A grid that has no point at all for the empty specification.
GridWithoutEmptyPoint(scenario_inputs) ==
    IF scenario_inputs = <<>> THEN <<>> ELSE Product(SortSeq(scenario_inputs, KeyBefore))

\* A grid that crosses the items in the order the dict lists them.
GridInWrittenOrder(scenario_inputs) == Product(scenario_inputs)

\* list(ParameterGrid(scenario_inputs)): the items sorted by key, then crossed.
ParameterGrid(scenario_inputs) == Product(SortSeq(scenario_inputs, KeyBefore))

\* What the statement list(ParameterGrid(scenario_inputs)) can do.  The code
\* itself checks nothing.  For a key with an empty value sequence the outcome
\* is the library's: releases of scikit-learn that validate the values raise
\* ValueError, the others return the product, which has no point.
HasEmptySeq(scenario_inputs) == \E j \in 1..Len(scenario_inputs) : scenario_inputs[j][2] = <<>>
GridOutcomes(scenario_inputs) ==
    {[raised |-> FALSE, grid |-> ParameterGrid(scenario_inputs)]}
    \cup (IF HasEmptySeq(scenario_inputs) THEN {[raised |-> TRUE, grid |-> <<>>]} ELSE {})

\* ------------------------------------------------------- the callers' inputs
\* Scenario keys and the values a scenario sequence is made of, per class.
ScenarioKeys(cls) ==
    CASE cls = "BookstoreModel" -> {"demand", "order_quantity"}
      [] cls = "QuadModel" -> {"x"}
      [] cls = "SumModel" -> {"a", "b"}
ScenarioValues(key) ==
    CASE key = "demand" -> {R(2), R(5)}
      [] key = "order_quantity" -> {R(3), R(6)}
      [] key = "x" -> {R(1), R(4)}
      [] key = "a" -> {R(1), R(2)}
      [] key = "b" -> {R(10), R(20)}
\* The sequences of at most MaxVals values of a key (repeats allowed), and the
\* empty sequence.
ValueSeqs(key) ==
    UNION {[1..len -> {Num(v) : v \in ScenarioValues(key)}] : len \in 0..MaxVals}
\* A name that is no attribute of any model.
UnknownInput == "no_such_input"
\* The scenario specifications: at most two keys, in either insertion order;
\* and one whose key is no parameter of the model.
ScenarioSpecs(cls) ==
    {<<>>, << <<UnknownInput, <<Num(R(1)), Num(R(2))>> >> >>}
    \cup UNION {{<< <<k, vs>> >> : vs \in ValueSeqs(k)} : k \in ScenarioKeys(cls)}
    \cup UNION {{<< <<kk[1], vs1>>, <<kk[2], vs2>> >> :
                    vs1 \in ValueSeqs(kk[1]), vs2 \in ValueSeqs(kk[2])} :
                   kk \in {pair \in ScenarioKeys(cls) \X ScenarioKeys(cls) : pair[1] # pair[2]}}
\* A sequence that lists no value twice (as np.arange gives).
NoRepeats(seq) == \A i, j \in 1..Len(seq) : seq[i] = seq[j] => i = j
\* The scenario specifications handed to simulate: ranges of distinct values.
RangeSpecs(cls) == {sp \in ScenarioSpecs(cls) : \A j \in 1..Len(sp) : NoRepeats(sp[j][2])}
OutputLists(cls) ==
    CASE cls = "BookstoreModel" ->
            {<<"profit">>, <<"order_cost">>, <<"profit", "order_cost">>,
             <<"profit", "no_such_output">>}
      [] cls = "QuadModel" -> {<<"simple_function">>}
      [] cls = "SumModel" -> {<<"sum">>}

\* ----------------------------------------------------------------- outputs
\* for output in outputs: getattr(model_clone, output)(): the values, in order.
OutputValues(obj, outputs) == [j \in 1..Len(outputs) |-> GetOutput(obj, outputs[j])]
\* Only the first output's evaluation is looked at.
HasExcFirstOnly(vals) == Len(vals) > 0 /\ IsExc(vals[1])
\* Some evaluation raised: the exception leaves the loop over the outputs.
HasExc(vals) == \E j \in 1..Len(vals) : IsExc(vals[j])
\* The exception the loop over the outputs stops at (the first).
FirstExc(vals) ==
    vals[CHOOSE j \in 1..Len(vals) : IsExc(vals[j]) /\ \A i \in 1..(j - 1) : ~IsExc(vals[i])]
Names(outputs) == {outputs[j] : j \in 1..Len(outputs)}
\* The dict {output: value}, built by assignment in the order of the outputs.
OutputDict(outputs, vals) ==
    [o \in Names(outputs) |->
        vals[CHOOSE j \in 1..Len(outputs) :
                outputs[j] = o /\ \A i \in (j + 1)..Len(outputs) : outputs[i] # o]]

\* --------------------------------------------------------------- data_table
\* model_clone = copy.deepcopy(model); dt_param_grid = list(ParameterGrid(...)); results = []
DataTableCall(scenario_inputs, outputs) ==
    /\ pc = "idle"
    /\ LET c == DeepCopy(heap, ModelRef) IN
        /\ heap' = c.heap
        /\ model_clone' = c.ref
    /\ args' = [fn |-> "data_table", scenario_inputs |-> scenario_inputs, outputs |-> outputs]
    /\ \E g \in GridOutcomes(scenario_inputs) :
         IF g.raised
         THEN /\ loc' = [fn |-> "data_table"]
              /\ pc' = "raised"
              /\ ret' = Raised("ValueError")
         ELSE /\ loc' = [fn |-> "data_table", grid |-> g.grid, i |-> 1, results |-> <<>>]
              /\ pc' = "dt_loop"
              /\ ret' = NoRet
    /\ evals' = <<>>

\* One pass of "for params in dt_param_grid": update the clone, copy the
\* point, add every output, append the row; an output that raises ends the call.
DataTableRow ==
    /\ pc = "dt_loop"
    /\ loc.i <= Len(loc.grid)
    /\ LET params == loc.grid[loc.i]
           h1 == UpdateAt(heap, model_clone, params)
           vals == OutputValues(h1[model_clone], args.outputs)
           result == Update(params, OutputDict(args.outputs, vals))
       IN /\ heap' = h1
          /\ IF HasExc(vals)
             THEN /\ pc' = "raised"
                  /\ ret' = Raised(FirstExc(vals).val)
                  /\ loc' = loc
                  /\ evals' = evals
             ELSE /\ pc' = pc
                  /\ ret' = ret
                  /\ loc' = [loc EXCEPT !.i = loc.i + 1, !.results = Append(loc.results, result)]
                  /\ evals' = evals \o [j \in 1..Len(args.outputs) |-> <<loc.i, args.outputs[j]>>]
    /\ UNCHANGED <<args, model_clone>>

\* results_df = pd.DataFrame(results); return results_df
DataTableReturn ==
    /\ pc = "dt_loop"
    /\ loc.i > Len(loc.grid)
    /\ pc' = "done"
    /\ ret' = [kind |-> "table", rows |-> loc.results]
    /\ UNCHANGED <<heap, args, model_clone, loc, evals>>

\* A caller's call of data_table.
CallDataTable ==
    /\ pc = "idle"
    /\ \E scenario_inputs \in ScenarioSpecs(heap[ModelRef].cls),
          outputs \in OutputLists(heap[ModelRef].cls) :
            DataTableCall(scenario_inputs, outputs)

DataTable == CallDataTable \/ DataTableRow \/ DataTableReturn

\* ----------------------------------------------------------------- simulate
\* An optional argument: None, or a value.
None == [some |-> FALSE]
Some(v) == [some |-> TRUE, val |-> v]

\* The pre-drawn random variates: the first n of these, per input.
Draws(key) ==
    CASE key = "demand" -> <<R(2), R(5), R(3), R(4)>>
      [] key = "unit_cost" -> <<R(7), Half(15), R(8), R(7)>>
      [] key = "x" -> <<R(1), R(4), R(2), R(3)>>
      [] key = "a" -> <<R(1), R(2), R(3), R(4)>>
      [] key = "b" -> <<R(10), R(20), R(30), R(40)>>
Variates(key, n) == Arr(SubSeq(Draws(key), 1, n))
\* The random-input dicts: one input of 1..MaxReps variates, two inputs of
\* equal or of unequal length, or one input whose key is no parameter.
RandomInputs(cls) ==
    LET k1 == CASE cls = "BookstoreModel" -> "demand" [] cls = "QuadModel" -> "x"
                [] cls = "SumModel" -> "a"
        k2 == CASE cls = "BookstoreModel" -> "unit_cost" [] cls = "QuadModel" -> "x"
                [] cls = "SumModel" -> "b"
    IN {(k1 :> Variates(k1, n)) : n \in 1..MaxReps}
       \cup {(k1 :> Variates(k1, MaxReps)) @@ (k2 :> Variates(k2, n2)) :
                n2 \in (MaxReps - 1)..MaxReps}
       \cup {(UnknownInput :> Variates(k1, MaxReps))}

\* if keep_random_inputs: scenario_base_vals = vars(model_clone)
\* else: scenario_base_vals = vars(model)
\* vars() is the object's own attribute dictionary, not a copy: the result
\* holds the reference.
BaseValsRef(keep_random_inputs, clone) == IF keep_random_inputs THEN clone ELSE ModelRef

\* The statements of simulate up to the scenario loop.
SimulateCall(random_inputs, outputs, scenario_inputs, keep_random_inputs) ==
    /\ pc = "idle"
    /\ LET c == DeepCopy(heap, ModelRef)
           base == [fn |-> "simulate",
                    scenario_base_vals |-> BaseValsRef(keep_random_inputs, c.ref),
                    scenario_num |-> 0,
                    results |-> <<>>]
       IN
        /\ heap' = UpdateAt(c.heap, c.ref, random_inputs)
        /\ model_clone' = c.ref
        /\ IF scenario_inputs.some
           THEN \E g \in GridOutcomes(scenario_inputs.val) :
                 IF g.raised
                 THEN /\ loc' = base
                      /\ pc' = "raised"
                      /\ ret' = Raised("ValueError")
                 ELSE /\ loc' = base @@ [grid |-> g.grid]
                      /\ pc' = "sim_loop"
                      /\ ret' = NoRet
           ELSE /\ loc' = base @@ [grid |-> <<>>]
                /\ pc' = "sim_single"
                /\ ret' = NoRet
    /\ args' = [fn |-> "simulate", random_inputs |-> random_inputs, outputs |-> outputs,
                scenario_inputs |-> scenario_inputs, keep_random_inputs |-> keep_random_inputs]
    /\ evals' = <<>>

\* A result dictionary numbered from 1.
ScenarioResultOneBased(base, num, scenario_vals, raw_output) ==
    [scenario_base_vals |-> base, scenario_num |-> num + 1, scenario_vals |-> scenario_vals,
     output |-> raw_output]

\* The result dictionary of one scenario.
ScenarioResult(base, num, scenario_vals, raw_output) ==
    [scenario_base_vals |-> base, scenario_num |-> num, scenario_vals |-> scenario_vals,
     output |-> raw_output]

\* One pass of "for params in sim_param_grid".
SimulateScenario ==
    /\ pc = "sim_loop"
    /\ loc.scenario_num < Len(loc.grid)
    /\ LET params == loc.grid[loc.scenario_num + 1]
           h1 == UpdateAt(heap, model_clone, params)
           vals == OutputValues(h1[model_clone], args.outputs)
           result == ScenarioResult(loc.scenario_base_vals, loc.scenario_num, params,
                                    OutputDict(args.outputs, vals))
       IN /\ heap' = h1
          /\ IF HasExc(vals)
             THEN /\ pc' = "raised"
                  /\ ret' = Raised(FirstExc(vals).val)
                  /\ loc' = loc
                  /\ evals' = evals
             ELSE /\ pc' = pc
                  /\ ret' = ret
                  /\ loc' = [loc EXCEPT !.scenario_num = loc.scenario_num + 1,
                                        !.results = Append(loc.results, result)]
                  /\ evals' = evals \o [j \in 1..Len(args.outputs) |->
                                            <<loc.scenario_num, args.outputs[j]>>]
    /\ UNCHANGED <<args, model_clone>>

\* return scenario_results
SimulateReturn ==
    /\ pc = "sim_loop"
    /\ loc.scenario_num >= Len(loc.grid)
    /\ pc' = "done"
    /\ ret' = [kind |-> "groups", groups |-> loc.results]
    /\ UNCHANGED <<heap, args, model_clone, loc, evals>>

\* The else branch: a single scenario at the clone's current inputs.
SimulateSingle ==
    /\ pc = "sim_single"
    /\ LET vals == OutputValues(heap[model_clone], args.outputs)
           result == ScenarioResult(loc.scenario_base_vals, loc.scenario_num, <<>>,
                                    OutputDict(args.outputs, vals))
       IN IF HasExc(vals)
          THEN /\ pc' = "raised"
               /\ ret' = Raised(FirstExc(vals).val)
               /\ loc' = loc
               /\ evals' = evals
          ELSE /\ pc' = "done"
               /\ ret' = [kind |-> "groups", groups |-> <<result>>]
               /\ loc' = [loc EXCEPT !.results = <<result>>]
               /\ evals' = evals \o [j \in 1..Len(args.outputs) |->
                                         <<loc.scenario_num, args.outputs[j]>>]
    /\ UNCHANGED <<heap, args, model_clone>>

\* A caller's call of simulate.
CallSimulate ==
    /\ pc = "idle"
    /\ \E random_inputs \in RandomInputs(heap[ModelRef].cls),
          outputs \in OutputLists(heap[ModelRef].cls),
          scenario_inputs \in {None} \cup {Some(sp) : sp \in RangeSpecs(heap[ModelRef].cls)},
          keep_random_inputs \in BOOLEAN :
            SimulateCall(random_inputs, outputs, scenario_inputs, keep_random_inputs)

Simulate == CallSimulate \/ SimulateScenario \/ SimulateReturn \/ SimulateSingle

\* ------------------------------------------------------- get_sim_results_df
\* The lengths of the arrays among the values of an output dict.
ArrayLengths(output) == {Len(output[o].val) : o \in {c \in DOMAIN output : IsArr(output[c])}}

\* df = pd.DataFrame(r['output']); df['scenario_num'] = r['scenario_num'];
\* for key, val in r['scenario_vals'].items(): df[key] = val
\* The frame of one group, as the sequence of its rows; a row is its index label
\* and its cells by column.  The arrays of the dict give the rows (index 0, 1,
\* ...), a scalar is repeated in every row, and so are the values assigned to
\* a column afterwards.  pandas raises ValueError for a dict of scalars only,
\* and for arrays of different lengths; an empty dict gives a frame of no rows.
GroupFrame(r) ==
    LET lens == ArrayLengths(r.output)
        Cell(o, j) == IF IsArr(r.output[o]) THEN Num(r.output[o].val[j]) ELSE r.output[o]
        Columns == (DOMAIN r.output) \cup {"scenario_num"} \cup (DOMAIN r.scenario_vals)
    IN IF DOMAIN r.output = {} THEN [raised |-> FALSE, rows |-> <<>>]
       ELSE IF lens = {} \/ Cardinality(lens) > 1 THEN [raised |-> TRUE, rows |-> <<>>]
       ELSE [raised |-> FALSE,
             rows |-> [j \in 1..(CHOOSE n \in lens : TRUE) |->
                        [index |-> j - 1,
                         data |-> [c \in Columns |->
                                    IF c \in DOMAIN r.scenario_vals THEN r.scenario_vals[c]
                                    ELSE IF c = "scenario_num" THEN r.scenario_num
                                    ELSE Cell(c, j)]]]]

\* The frames in reverse order, one after the other.
RECURSIVE ConcatReversed(_)
ConcatReversed(dfs) == IF dfs = <<>> THEN <<>> ELSE ConcatReversed(Tail(dfs)) \o Head(dfs)

\* pd.concat(dfs): the rows of the frames, one frame after the other, each row
\* with the index label it has.
RECURSIVE Concat(_)
Concat(dfs) == IF dfs = <<>> THEN <<>> ELSE Head(dfs) \o Concat(Tail(dfs))

\* get_sim_results_df(results), called with the list a simulate call returned.
\* A group whose frame cannot be built ends the call with ValueError; so does
\* an empty list (pd.concat has nothing to concatenate).
GetSimResultsDf ==
    /\ pc = "done"
    /\ args.fn = "simulate"
    /\ LET results == ret.groups
           frames == [g \in 1..Len(results) |-> GroupFrame(results[g])]
           fails == results = <<>> \/ \E g \in 1..Len(results) : frames[g].raised
       IN /\ args' = [fn |-> "get_sim_results_df", results |-> results, call |-> args]
          /\ loc' = [fn |-> "get_sim_results_df"]
          /\ IF fails
             THEN pc' = "raised" /\ ret' = Raised("ValueError")
             ELSE /\ pc' = "done"
                  /\ ret' = [kind |-> "frame",
                             rows |-> Concat([g \in 1..Len(results) |-> frames[g].rows])]
    /\ UNCHANGED <<heap, model_clone, evals>>

\* --------------------------------------------------------------- the caller
Returned == pc \in {"Converged", "Failed", "IterationLimitReached", "raised", "done"}

\* The caller lets go of the result; the clone is garbage.
Discard ==
    /\ Returned
    /\ pc' = "idle"
    /\ heap' = [heap EXCEPT ![CloneRef] = NoObj]
    /\ args' = NoArgs
    /\ model_clone' = "none"
    /\ loc' = NoLoc
    /\ ret' = NoRet
    /\ evals' = <<>>

Next ==
    \/ GoalSeek
    \/ DataTable
    \/ Simulate
    \/ GetSimResultsDf
    \/ Discard

Spec == Init /\ [][Next]_vars


\* The caller changes a parameter of its own model with model.update(...),
\* between calls or while it holds the result of a call.  (Once per model,
\* to keep the states finite.)
CallerUpdates(cls) ==
    CASE cls = "BookstoreModel" -> {("demand" :> Num(R(4)))}
      [] cls = "QuadModel" -> {("x" :> Num(R(2)))}
      [] cls = "SumModel" -> {("a" :> Num(R(3)))}
UpdateModel ==
    /\ pc = "idle" \/ Returned
    /\ heap[ModelRef] \in Models
    /\ \E param_dict \in CallerUpdates(heap[ModelRef].cls) :
            heap' = UpdateAt(heap, ModelRef, param_dict)
    /\ UNCHANGED <<pc, args, model_clone, loc, ret, evals>>

\* The calls, and the caller's own updates of its model.
CallerNext == Next \/ UpdateModel
CallerSpec == Init /\ [][CallerNext]_vars

\* A call that has started keeps running until it returns: the code is
\* sequential and never waits.  (When the caller makes its next call is up to
\* the caller.)  The calls of goal_seek alone, with that fairness:
GoalSeekRunning == Validate \/ Bisect \/ ReachLimit
GoalSeekNext == GoalSeek \/ Discard
FairGoalSeek == Init /\ [][GoalSeekNext]_vars /\ WF_vars(GoalSeekRunning)

\* ------------------------------------------- scenario points, interleaved
\* The loop bodies of data_table and simulate run as one task per scenario
\* point, the tasks interleaving statement by statement.  The objects are those
\* of the code: the one clone made before the loop (model_clone) is what every
\* task updates and reads.  The results are assembled in the order of the grid
\* and each group gets its point's number.
NoRow == [pending |-> TRUE]

\* The calls whose scenario points are run as tasks: a sweep of one input.
CallWithPoints ==
    /\ pc = "idle"
    /\ \E scenario_inputs \in {sp \in RangeSpecs(heap[ModelRef].cls) : Len(sp) = 1},
          outputs \in OutputLists(heap[ModelRef].cls) :
            \/ DataTableCall(scenario_inputs, outputs)
            \/ \E random_inputs \in RandomInputs(heap[ModelRef].cls) :
                    SimulateCall(random_inputs, outputs, Some(scenario_inputs), FALSE)

\* The loop is reached: one task per point of the grid, none started.
StartPoints ==
    /\ pc \in {"dt_loop", "sim_loop"}
    /\ "at" \notin DOMAIN loc
    /\ loc' = [fn |-> loc.fn, grid |-> loc.grid,
               scenario_base_vals |-> IF args.fn = "simulate" THEN loc.scenario_base_vals
                                      ELSE ModelRef,
               at |-> [i \in 1..Len(loc.grid) |-> "start"],
               results |-> [i \in 1..Len(loc.grid) |-> NoRow]]
    /\ pc' = "points"
    /\ UNCHANGED <<heap, args, model_clone, ret, evals>>

\* Task i: model_clone.update(params)
PointUpdate(i) ==
    /\ pc = "points"
    /\ loc.at[i] = "start"
    /\ heap' = UpdateAt(heap, model_clone, loc.grid[i])
    /\ loc' = [loc EXCEPT !.at[i] = "updated"]
    /\ UNCHANGED <<pc, args, model_clone, ret, evals>>

\* Task i: the loop over the outputs, and the row or group of the point.
PointEvaluate(i) ==
    /\ pc = "points"
    /\ loc.at[i] = "updated"
    /\ LET params == loc.grid[i]
           vals == OutputValues(heap[model_clone], args.outputs)
           result == IF args.fn = "data_table"
                     THEN Update(params, OutputDict(args.outputs, vals))
                     ELSE ScenarioResult(loc.scenario_base_vals, i - 1, params,
                                         OutputDict(args.outputs, vals))
       IN IF HasExc(vals)
          THEN /\ pc' = "raised"
               /\ ret' = Raised(FirstExc(vals).val)
               /\ loc' = loc
               /\ evals' = evals
          ELSE /\ pc' = pc
               /\ ret' = ret
               /\ loc' = [loc EXCEPT !.at[i] = "done", !.results[i] = result]
               /\ evals' = evals \o [j \in 1..Len(args.outputs) |-> <<i, args.outputs[j]>>]
    /\ UNCHANGED <<heap, args, model_clone>>

\* All tasks are done: the rows or groups are returned in the grid's order.
PointsJoin ==
    /\ pc = "points"
    /\ \A i \in 1..Len(loc.grid) : loc.at[i] = "done"
    /\ pc' = "done"
    /\ ret' = IF args.fn = "data_table" THEN [kind |-> "table", rows |-> loc.results]
              ELSE [kind |-> "groups", groups |-> loc.results]
    /\ UNCHANGED <<heap, args, model_clone, loc, evals>>

PointUpdates == pc = "points" /\ \E i \in 1..Len(loc.grid) : PointUpdate(i)
PointEvaluates == pc = "points" /\ \E i \in 1..Len(loc.grid) : PointEvaluate(i)
PointsNext ==
    CallWithPoints \/ StartPoints \/ PointUpdates \/ PointEvaluates \/ PointsJoin \/ Discard
PointsSpec == Init /\ [][PointsNext]_vars

\* ================================================================== claims
InGoalSeek == args.fn = "goal_seek"

\* The objective of the running goal_seek call as a function of the changed
\* input, taken on the caller's own model (not on the clone the call works on).
\* The attributes d with those of point in place of, or added to, their own.
Override(d, point) ==
    [k \in (DOMAIN d) \cup (DOMAIN point) |-> IF k \in DOMAIN point THEN point[k] ELSE d[k]]
ObjectiveAt(x) ==
    GetOutput([heap[ModelRef] EXCEPT !.dict = Override(@, (args.by_changing :> Num(x)))],
              args.obj_fn)
ObjectiveDefined == args.obj_fn \in Methods(heap[ModelRef].cls)
Abs(x) == IF x < 0 THEN -x ELSE x

\* C2: goal_seek never changes the caller's model: every step of a goal_seek
\* call (the call itself, the validation, each iteration, the exit at the
\* iteration limit) leaves every attribute of the caller's object as it was.
C2_GoalSeekKeepsCallerModel ==
    [][args'.fn = "goal_seek" => heap'[ModelRef] = heap[ModelRef]]_vars

\* Witness of C2: goal_seek has returned at the iteration limit and its clone
\* holds a value of the changed input that the caller's model does not.
C2_Witness ==
    /\ InGoalSeek /\ pc = "IterationLimitReached" /\ args.N > 0
    /\ args.by_changing \in DOMAIN heap[ModelRef].dict
    /\ heap[CloneRef].dict[args.by_changing] # heap[ModelRef].dict[args.by_changing]

\* C3: whenever (f(a) - target) * (f(b) - target) >= 0 at the supplied bounds,
\* goal_seek returns None without any iteration of the main loop, and the
\* output has been evaluated at a and at b only.
C3_NoBracketReturnsNone ==
    (/\ InGoalSeek /\ ObjectiveDefined /\ pc # "Validating"
     /\ SignOfProduct(ObjectiveAt(args.a).val - args.target,
                      ObjectiveAt(args.b).val - args.target) >= 0)
    => (pc = "Failed" /\ ret = PyNone /\ loc.n = 0 /\ evals = <<args.a, args.b>>)

\* Witness of C3: None was returned from the validation for a bracket whose
\* end point value equals the target (the product is 0, not positive).
C3_Witness ==
    /\ InGoalSeek /\ ObjectiveDefined /\ pc = "Failed" /\ loc.n = 0
    /\ args.a # args.b
    /\ ObjectiveAt(args.a).val = args.target
    /\ ObjectiveAt(args.b).val # args.target

\* C4: goal_seek executes at most N iterations of its main loop, and every
\* call returns: None, an exact hit, or the final midpoint.
C4_AtMostNIterationsAndReturns ==
    /\ [](InGoalSeek => loc.n <= args.N)
    /\ [](InGoalSeek /\ Returned /\ pc # "raised" => ret.kind \in {"None", "num"})
    /\ ((pc \in {"Validating", "Bisecting"}) ~> Returned)

\* Witness of C4: a call that ran all N > 1 iterations and returned.
C4_Witness ==
    InGoalSeek /\ pc = "IterationLimitReached" /\ loc.n = args.N /\ args.N > 1

\* The half width of the interval after N halvings of the bracket.
FinalHalfWidth == Abs(args.b - args.a) \div (2 ^ (args.N + 1))

\* The distance of x from the root (3 - sqrt 29)/2 resp. (3 + sqrt 29)/2 of
\* x^2 - 3x - 5 is at most h: with u = 2(x - h) - 3 and v = 2(x + h) - 3 the
\* root lies in [x - h, x + h] iff u <= -sqrt 29 <= v resp. u <= sqrt 29 <= v.
NearLeftRoot(x, h) ==
    LET u == 2 * (x - h) - R(3)
        v == 2 * (x + h) - R(3)
    IN (u < 0 /\ Mul(u, u) >= R(29)) /\ (v >= 0 \/ Mul(v, v) <= R(29))
NearRightRoot(x, h) ==
    LET u == 2 * (x - h) - R(3)
        v == 2 * (x + h) - R(3)
    IN (u <= 0 \/ Mul(u, u) <= R(29)) /\ (v > 0 /\ Mul(v, v) >= R(29))

C6_LimitReturnsFinalMidpoint ==
    (InGoalSeek /\ pc = "IterationLimitReached")
    => /\ ret.kind = "num"
       /\ 2 * ret.val = loc.a_n + loc.b_n
       /\ loc.n = args.N
       /\ Abs(loc.b_n - loc.a_n) * (2 ^ args.N) = Abs(args.b - args.a)
       /\ (args.N = 0 => 2 * ret.val = args.a + args.b)

\* Witness of C6: the limit is reached with N = 0, and with N = MaxN elsewhere.
C6_Witness ==
    InGoalSeek /\ pc = "IterationLimitReached" /\ args.N = 0 /\ ret.kind = "num"

\* C7: a return through the exact-hit branch at iteration n returns that
\* iteration's midpoint m_n, the output at m_n equals the target exactly, and
\* the loop has run no further (the last evaluations are those of iteration n).
C7_ExactHitReturnsMidpoint ==
    (InGoalSeek /\ pc = "Converged")
    => /\ ret = Number(loc.m_n)
       /\ 2 * loc.m_n = loc.a_n + loc.b_n
       /\ ObjectiveAt(loc.m_n).val = args.target
       /\ loc.n \in 1..args.N
       /\ evals = SubSeq(evals, 1, 3 * loc.n - 1) \o <<loc.m_n, loc.a_n, loc.b_n>>

\* Witness of C7: an exact hit in the second iteration, with iterations to spare.
C7_Witness ==
    InGoalSeek /\ pc = "Converged" /\ loc.n = 2 /\ args.N = MaxN


\* The caller's model with a scenario point applied to it.
ModelAt(point) == [heap[ModelRef] EXCEPT !.dict = Override(@, point)]
\* The product of the lengths of the value sequences of a specification.
RECURSIVE SizeProduct(_)
SizeProduct(items) ==
    IF items = <<>> THEN 1 ELSE Len(Head(items)[2]) * SizeProduct(Tail(items))
KeysOf(items) == {items[j][1] : j \in 1..Len(items)}
ValuesOf(items, key) == (CHOOSE it \in {items[j] : j \in 1..Len(items)} : it[1] = key)[2]

\* C1: data_table and simulate never change the caller's model: every step of
\* such a call (whatever its scenario inputs, random inputs, outputs and
\* keep_random_inputs) leaves every attribute of the caller's object as it was.
C1_TableAndSimulateKeepCallerModel ==
    [][args'.fn \in {"data_table", "simulate"} => heap'[ModelRef] = heap[ModelRef]]_vars

\* Witness of C1: simulate has returned after applying random inputs and two
\* or more scenario points to its clone, which now differs from the model.
C1_Witness ==
    /\ args.fn = "simulate" /\ pc = "done" /\ args.keep_random_inputs
    /\ Len(ret.groups) >= 2
    /\ heap[CloneRef].dict # heap[ModelRef].dict

\* C8: data_table returns one row per scenario point, in the order of the
\* grid; row i holds the key/value pairs of point i and, for every requested
\* output, the value the output has on the caller's model with exactly point i
\* applied.  For sum = a + b and {a: [1, 2], b: [10, 20]} the sums are
\* 11, 21, 12, 22.
C8_DataTableRows ==
    (args.fn = "data_table" /\ pc = "done")
    => /\ ret.kind = "table"
       /\ Len(ret.rows) = SizeProduct(args.scenario_inputs)
       /\ Len(ret.rows) = Len(loc.grid)
       /\ \A i \in 1..Len(ret.rows) :
            /\ DOMAIN ret.rows[i] = KeysOf(args.scenario_inputs) \cup Names(args.outputs)
            /\ \A k \in KeysOf(args.scenario_inputs) : ret.rows[i][k] = loc.grid[i][k]
            /\ \A o \in Names(args.outputs) :
                    ret.rows[i][o] = GetOutput(ModelAt(loc.grid[i]), o)
       /\ (args.outputs = <<"sum">>
           /\ SortSeq(args.scenario_inputs, KeyBefore)
                = << <<"a", <<Num(R(1)), Num(R(2))>> >>, <<"b", <<Num(R(10)), Num(R(20))>> >> >>)
          => [i \in 1..4 |-> ret.rows[i]["sum"]]
                = <<Num(R(11)), Num(R(21)), Num(R(12)), Num(R(22))>>

\* Witness of C8: the table of sum over {a: [1, 2], b: [10, 20]}, four rows,
\* and the second point puts a smaller value of b back after a larger one.
C8_Witness ==
    /\ args.fn = "data_table" /\ pc = "done" /\ args.outputs = <<"sum">>
    /\ Len(ret.rows) = 4
    /\ ret.rows[2]["b"] = Num(R(20)) /\ ret.rows[3]["b"] = Num(R(10))
    /\ ret.rows[3]["sum"] = Num(R(12))

\* The grid of the running call, when the call has one.
HasGrid ==
    /\ \/ args.fn = "data_table"
       \/ args.fn = "simulate" /\ args.scenario_inputs.some
    /\ "grid" \in DOMAIN loc
SpecOfCall == IF args.fn = "simulate" THEN args.scenario_inputs.val ELSE args.scenario_inputs
PairwiseDistinct(grid) == \A i, j \in 1..Len(grid) : grid[i] = grid[j] => i = j
GridSizeAndKeys(grid, items) ==
    /\ Len(grid) = SizeProduct(items)
    /\ \A i \in 1..Len(grid) :
         /\ DOMAIN grid[i] = KeysOf(items)
         /\ \A k \in KeysOf(items) : \E j \in 1..Len(ValuesOf(items, k)) :
                grid[i][k] = ValuesOf(items, k)[j]
    /\ (items = <<>> => grid = << <<>> >>)
\* Every combination of one value per key occurs in the grid.
GridComplete(grid, items) ==
    \A i \in 1..Len(grid), k \in KeysOf(items) : \A j \in 1..Len(ValuesOf(items, k)) :
        \E i2 \in 1..Len(grid) :
            /\ grid[i2][k] = ValuesOf(items, k)[j]
            /\ \A k2 \in KeysOf(items) \ {k} : grid[i2][k2] = grid[i][k2]

\* C9 as claimed: the grid has n1 * ... * nk points, pairwise distinct, each
\* assigning one value to every key; the empty specification gives one empty
\* point.
C9_AsClaimed ==
    HasGrid => (GridSizeAndKeys(loc.grid, SpecOfCall) /\ PairwiseDistinct(loc.grid))

\* C9, amended: the grid has n1 * ... * nk points, each assigning one of the
\* key's values to every key, and every combination of values occurs; the
\* empty specification gives one empty point; the points are pairwise distinct
\* when no key's value sequence repeats a value.
C9_GridIsProduct ==
    HasGrid
    => /\ GridSizeAndKeys(loc.grid, SpecOfCall)
       /\ GridComplete(loc.grid, SpecOfCall)
       /\ (\A k \in KeysOf(SpecOfCall) : NoRepeats(ValuesOf(SpecOfCall, k)))
            => PairwiseDistinct(loc.grid)

\* Witness of C9: a grid of two keys with MaxVals distinct values each.
C9_Witness ==
    /\ HasGrid /\ Len(SpecOfCall) = 2
    /\ \A k \in KeysOf(SpecOfCall) :
            Len(ValuesOf(SpecOfCall, k)) = MaxVals /\ NoRepeats(ValuesOf(SpecOfCall, k))
    /\ Len(loc.grid) = MaxVals * MaxVals
    /\ PairwiseDistinct(loc.grid)

\* The common length of the random input sequences, when they have one.
RandomLengths == {Len(args.random_inputs[k].val) : k \in DOMAIN args.random_inputs}
\* A value that holds exactly n replication values.
HoldsReplications(v, n) == IsArr(v) /\ Len(v.val) = n

\* C10: for random inputs all of length n and a scenario specification of k
\* points, simulate returns k groups, and every requested output of every
\* group holds exactly n values.
C10_GroupsAndReplications ==
    (/\ args.fn = "simulate" /\ pc = "done" /\ args.scenario_inputs.some
     /\ Cardinality(RandomLengths) = 1)
    => /\ Len(ret.groups) = SizeProduct(args.scenario_inputs.val)
       /\ \A g \in 1..Len(ret.groups) : \A o \in Names(args.outputs) :
            \A n \in RandomLengths : HoldsReplications(ret.groups[g].output[o], n)

\* The running (or returned) call names a parameter the model does not have:
\* as a scenario key, as a random-input key, or as goal_seek's by_changing.
CallerClass == heap[ModelRef].cls
NamesUnknownParameter ==
    \/ InGoalSeek /\ args.by_changing \notin Parameters(CallerClass)
    \/ args.fn = "data_table" /\ ~(KeysOf(args.scenario_inputs) \subseteq Parameters(CallerClass))
    \/ /\ args.fn = "simulate"
       /\ \/ ~(DOMAIN args.random_inputs \subseteq Parameters(CallerClass))
          \/ /\ args.scenario_inputs.some
             /\ ~(KeysOf(args.scenario_inputs.val) \subseteq Parameters(CallerClass))

\* C13: setting a name that is no parameter of the model fails: a call of
\* data_table, simulate or goal_seek that names one (scenario key, random-input
\* key, by_changing) ends with an error and no result, and no object (the
\* caller's model, or the clone BookstoreModel.update is applied to) ever
\* gains an attribute that is not a parameter of its class.
C13_UnknownParameterFails ==
    /\ \A r \in {ModelRef, CloneRef} :
            heap[r] # NoObj => DOMAIN heap[r].dict \subseteq Parameters(heap[r].cls)
    /\ (NamesUnknownParameter /\ Returned) => (pc = "raised" /\ ret.kind = "raise")

\* The results get_sim_results_df was called with, and the call that made them.
InResultsDf == args.fn = "get_sim_results_df"
\* The number of replications of the simulate call: the common length of its
\* random input sequences.
CallLengths(call) == {Len(call.random_inputs[k].val) : k \in DOMAIN call.random_inputs}
\* The value of output o of group r in replication j.
ReplicationValue(r, o, j) ==
    IF IsArr(r.output[o]) THEN Num(r.output[o].val[j]) ELSE r.output[o]
\* The position in results of the group with scenario index num.
GroupPos(results, num) == CHOOSE g \in 1..Len(results) : results[g].scenario_num = num
\* The row carries the scenario index and the scenario values of the group,
\* and the values of the outputs in the replication its index label names.
RowOfGroup(row, r) ==
    /\ row.data["scenario_num"] = r.scenario_num
    /\ \A k \in DOMAIN r.scenario_vals : row.data[k] = r.scenario_vals[k]
    /\ \A o \in DOMAIN r.output : row.data[o] = ReplicationValue(r, o, row.index + 1)

\* C11: for a non-empty list of result groups of n replications each,
\* get_sim_results_df returns a table with n rows per group, and every row
\* carries the scenario index and the scenario values of one group together
\* with the values of all its outputs in one replication.
C11_FrameRowsOfGroups ==
    (/\ InResultsDf /\ Returned /\ args.results # <<>>
     /\ Cardinality(CallLengths(args.call)) = 1)
    => /\ ret.kind = "frame"
       /\ \A n \in CallLengths(args.call) : Len(ret.rows) = n * Len(args.results)
       /\ \A i \in 1..Len(ret.rows) : \E g \in 1..Len(args.results) :
                RowOfGroup(ret.rows[i], args.results[g])

\* C12: get_sim_results_df preserves relative order: in the table it returns,
\* the rows of an earlier group of the list all precede the rows of a later
\* group, and the rows of one group are in replication order (index labels
\* 0, 1, ... ascending).
C12_RowsKeepOrder ==
    (InResultsDf /\ pc = "done")
    => \A i, i2 \in 1..Len(ret.rows) :
         i < i2 =>
            LET g == GroupPos(args.results, ret.rows[i].data["scenario_num"])
                g2 == GroupPos(args.results, ret.rows[i2].data["scenario_num"])
            IN g < g2 \/ (g = g2 /\ ret.rows[i].index < ret.rows[i2].index)

\* Witness of C12: a table made of two or more groups of two or more
\* replications each.
C12_Witness ==
    /\ InResultsDf /\ pc = "done"
    /\ Len(args.results) >= 2
    /\ Len(ret.rows) >= 2 * Len(args.results)
    /\ ret.rows[1].data["scenario_num"] # ret.rows[Len(ret.rows)].data["scenario_num"]

\* A requested output name is no output method of the model.
RequestsUnknownOutput ==
    \E j \in 1..Len(args.outputs) : args.outputs[j] \notin Methods(CallerClass)
\* The scenario specification of the call, <<>> when simulate has none.
ScenarioItems ==
    IF args.fn = "data_table" THEN args.scenario_inputs
    ELSE IF args.scenario_inputs.some THEN args.scenario_inputs.val ELSE <<>>
\* The random input sequences of the call all have one length.
EqualRandomLengths == args.fn = "simulate" => Cardinality(RandomLengths) = 1

C15_UnequalLengthsFail ==
    (args.fn = "simulate" /\ Returned /\ Cardinality(RandomLengths) > 1)
    => (pc = "raised" /\ ret = Raised("ValueError"))

\* C16: a scenario specification in which some key has an empty value
\* sequence is rejected by data_table and by simulate: the call fails with the
\* invalid-specification error (ValueError) and returns no table or group list.
C16_EmptySequenceRejected ==
    (args.fn \in {"data_table", "simulate"} /\ Returned /\ HasEmptySeq(ScenarioItems))
    => (pc = "raised" /\ ret = Raised("ValueError"))

\* The parameter values a group's scenario_base_vals shows now: the group
\* holds the attribute dictionary of an object, and this is what it contains.
SnapshotOf(group) == heap[group.scenario_base_vals].dict
\* The parameter values after Step 1: those of the clone with the random
\* inputs applied (keep_random_inputs) or those of the caller's model.
StepOneValues ==
    IF args.keep_random_inputs THEN Override(heap[ModelRef].dict, args.random_inputs)
    ELSE heap[ModelRef].dict

\* C17: the provenance snapshot is captured once, before any scenario point
\* is applied: every result group built so far shows, as scenario_base_vals,
\* the parameter values after Step 1 (the randomized clone's with
\* keep_random_inputs, the original model's without), also after later
\* scenario points have been applied.
C17_SnapshotTakenOnce ==
    (args.fn = "simulate" /\ pc \in {"sim_loop", "done"})
    => \A g \in 1..Len(loc.results) : SnapshotOf(loc.results[g]) = StepOneValues

\* What the caller reads in the result it holds: a group's scenario_base_vals
\* is an attribute dictionary, read through the reference the group holds.
ResultValue ==
    IF ret.kind = "groups"
    THEN [g \in 1..Len(ret.groups) |->
            [ret.groups[g] EXCEPT !.scenario_base_vals = heap[@].dict]]
    ELSE <<ret>>

\* C18: nothing a call returned keeps a reference to the caller's model:
\* while the caller holds the result of data_table, goal_seek or simulate, a
\* change of a parameter of its model changes nothing the result shows
\* (scenario_base_vals of simulate's groups included).
C18_ResultsKeepNoReference ==
    [][(Returned /\ ret' = ret /\ heap'[ModelRef] # heap[ModelRef])
        => ResultValue' = ResultValue]_vars

\* C19: in the list simulate returns (and in the list it has built so far),
\* the group at position i has scenario index i, counted from 0, and its
\* scenario values are the i-th point in the enumeration of the scenario grid;
\* the returned list has one group per point.
C19_GroupsNumberedInGridOrder ==
    (args.fn = "simulate" /\ args.scenario_inputs.some /\ pc \in {"sim_loop", "done"})
    => /\ \A i \in 1..Len(loc.results) :
            /\ loc.results[i].scenario_num = i - 1
            /\ loc.results[i].scenario_vals = loc.grid[i]
       /\ pc = "done" => (ret.groups = loc.results /\ Len(ret.groups) = Len(loc.grid))

\* Witness of C19: simulate has returned the groups of a grid of four points.
C19_Witness ==
    /\ args.fn = "simulate" /\ args.scenario_inputs.some /\ pc = "done"
    /\ Len(ret.groups) = 4
    /\ ret.groups[4].scenario_num = 3
    /\ ret.groups[4].scenario_vals # ret.groups[1].scenario_vals

\* The caller's model with the random inputs of the call applied.
RandomizedModel == [heap[ModelRef] EXCEPT !.dict = Override(@, args.random_inputs)]
\* The one group of a simulation without scenario sweep: index 0, the empty
\* scenario point, every output taken at the randomized inputs.
SingleGroup ==
    [scenario_base_vals |-> IF args.keep_random_inputs THEN CloneRef ELSE ModelRef,
     scenario_num |-> 0,
     scenario_vals |-> <<>>,
     output |-> [o \in Names(args.outputs) |-> GetOutput(RandomizedModel, o)]]
\* The first requested output whose evaluation at the randomized inputs raises.
FirstFailure(j) ==
    /\ IsExc(GetOutput(RandomizedModel, args.outputs[j]))
    /\ \A i \in 1..(j - 1) : ~IsExc(GetOutput(RandomizedModel, args.outputs[i]))
NoSweep == args.fn = "simulate" /\ args.scenario_inputs \in {None, Some(<<>>)}

\* C20: simulate with scenario_inputs omitted returns exactly one group, with
\* scenario index 0 and the empty scenario point, its outputs evaluated at the
\* model's randomized inputs; and this is also what it returns for the empty
\* specification {}: the result (or the error raised) and the clone are the
\* same function of the model, the random inputs, the outputs and
\* keep_random_inputs in both cases.
C20_OmittedSameAsEmptySpec ==
    (NoSweep /\ Returned)
    => /\ heap[CloneRef] = RandomizedModel
       /\ IF \E j \in 1..Len(args.outputs) : FirstFailure(j)
          THEN /\ pc = "raised"
               /\ \E j \in 1..Len(args.outputs) :
                    FirstFailure(j) /\ ret = Raised(GetOutput(RandomizedModel, args.outputs[j]).val)
          ELSE /\ pc = "done"
               /\ ret = [kind |-> "groups", groups |-> <<SingleGroup>>]

\* Witness of C20: the call with the empty specification {} has returned its
\* one group, holding an output with several replication values.
C20_Witness ==
    /\ args.fn = "simulate" /\ args.scenario_inputs = Some(<<>>) /\ pc = "done"
    /\ Len(ret.groups) = 1
    /\ \E o \in Names(args.outputs) :
            IsArr(ret.groups[1].output[o]) /\ Len(ret.groups[1].output[o].val) >= 2

\* The states of goal_seek's state machine and its transitions.
GoalSeekStates == {"Validating", "Bisecting", "Converged", "Failed", "IterationLimitReached"}
GoalSeekTerminal == {"Converged", "Failed", "IterationLimitReached"}
GoalSeekTransitions ==
    {<<"Validating", "Failed">>, <<"Validating", "Bisecting">>, <<"Bisecting", "Bisecting">>,
     <<"Bisecting", "Converged">>, <<"Bisecting", "Failed">>,
     <<"Bisecting", "IterationLimitReached">>}

\* What the four branch conditions, taken in their order on the objective of
\* the caller's model at a_n, m and b_n, prescribe for the step from the
\* current interval: the next state, interval and returned value.
BranchPrescribes ==
    LET m == Midpoint(loc.a_n, loc.b_n)
        t == args.target
        fa == ObjectiveAt(loc.a_n).val
        fm == ObjectiveAt(m).val
        fb == ObjectiveAt(loc.b_n).val
    IN IF SignOfProduct(fa - t, fm - t) < 0
       THEN pc' = "Bisecting" /\ loc'.b_n = m /\ loc'.a_n = loc.a_n /\ ret' = ret
       ELSE IF SignOfProduct(fb - t, fm - t) < 0
       THEN pc' = "Bisecting" /\ loc'.a_n = m /\ loc'.b_n = loc.b_n /\ ret' = ret
       ELSE IF fm = t
       THEN pc' = "Converged" /\ ret' = Number(m)
       ELSE pc' = "Failed" /\ ret' = PyNone

\* One step of a goal_seek call whose output exists on the model, as the state
\* machine allows it.
StateMachineStep ==
    (InGoalSeek /\ ObjectiveDefined /\ pc \in GoalSeekStates /\ vars' # vars)
    => /\ pc \in GoalSeekTerminal => pc' = "idle"
       /\ pc \notin GoalSeekTerminal => <<pc, pc'>> \in GoalSeekTransitions
       /\ (pc = "Bisecting" /\ pc' # "IterationLimitReached") => BranchPrescribes
       /\ pc' \in {"Converged", "IterationLimitReached"} => ret'.kind = "num"
       /\ pc' = "Failed" => ret' = PyNone

\* C21: goal_seek follows the state machine {Validating, Bisecting, Converged,
\* Failed, IterationLimitReached}: a call whose output exists on the model
\* moves only Validating->Failed, Validating->Bisecting, Bisecting->Bisecting,
\* Bisecting->Converged, Bisecting->Failed or Bisecting->IterationLimitReached;
\* a terminal state has no successor within the call (the only step from it
\* ends the call); every iteration applies the four branches in their order
\* (b := m with a kept; else a := m with b kept; else return m on
\* f(m) = target; else return None); Converged and IterationLimitReached
\* return a number and Failed returns None.
C21_FollowsStateMachine == [][StateMachineStep]_vars

\* Witness of C21: a call still bisecting after iterations that took the first
\* branch and the second branch (both end points have moved).
C21_Witness ==
    /\ InGoalSeek /\ ObjectiveDefined /\ pc = "Bisecting" /\ loc.n >= 2
    /\ loc.a_n # args.a /\ loc.b_n # args.b

\* The target-shifted objective has strictly opposite signs at a_n and b_n.
StrictSignChange ==
    SignOfProduct(ObjectiveAt(loc.a_n).val - args.target,
                  ObjectiveAt(loc.b_n).val - args.target) < 0

\* C22: bracket invariant of goal_seek: at the start of every iteration of the
\* main loop and at every exit of the loop (exact hit, iteration limit),
\* (f(a_n) - target) * (f(b_n) - target) < 0 for the current end points: each
\* update b := m or a := m keeps a strict sign change between them.
C22_BracketInvariant ==
    (InGoalSeek /\ ObjectiveDefined /\ pc \in {"Bisecting", "Converged", "IterationLimitReached"})
    => StrictSignChange

\* Witness of C22: after an update b := m and an update a := m the loop is at
\* the start of a further iteration.
C22_Witness ==
    /\ InGoalSeek /\ ObjectiveDefined /\ pc = "Bisecting" /\ LoopRuns(loc.n, args.N)
    /\ loc.a_n # args.a /\ loc.b_n # args.b /\ StrictSignChange

\* The three branch conditions of the iteration that starts from the current
\* interval, on the objective of the caller's model.
Cond1 ==
    SignOfProduct(ObjectiveAt(loc.a_n).val - args.target,
                  ObjectiveAt(Midpoint(loc.a_n, loc.b_n)).val - args.target) < 0
Cond2 ==
    SignOfProduct(ObjectiveAt(loc.b_n).val - args.target,
                  ObjectiveAt(Midpoint(loc.a_n, loc.b_n)).val - args.target) < 0
Cond3 == ObjectiveAt(Midpoint(loc.a_n, loc.b_n)).val = args.target
ExactlyOneCond ==
    Cardinality({c \in {1, 2, 3} : (c = 1 /\ Cond1) \/ (c = 2 /\ Cond2) \/ (c = 3 /\ Cond3)}) = 1

\* C23: in exact arithmetic and for a pure output, once the bracket test has
\* passed, exactly one of the branch conditions 1, 2 and 3 holds at every
\* iteration of the main loop; the fourth branch is never taken: a call that
\* returned None did so from the validation, before any iteration.
C23_FailBranchUnreachable ==
    /\ (InGoalSeek /\ ObjectiveDefined /\ pc = "Bisecting" /\ LoopRuns(loc.n, args.N))
            => ExactlyOneCond
    /\ (InGoalSeek /\ ObjectiveDefined /\ pc = "Failed")
            => (loc.n = 0 /\ evals = <<args.a, args.b>>)
    /\ (InGoalSeek /\ ObjectiveDefined /\ ret = PyNone) => pc = "Failed"

\* Witness of C23: an iteration is about to start at which the third condition
\* is the one that holds, after an iteration at which the first or second held.
C23_Witness ==
    /\ InGoalSeek /\ ObjectiveDefined /\ pc = "Bisecting" /\ LoopRuns(loc.n, args.N)
    /\ loc.n >= 1 /\ Cond3 /\ ~Cond1 /\ ~Cond2

\* The interval after loc.n iterations that did not return: inside the
\* bracket, not empty, and of width (b - a)/2^n.
HalvedInterval ==
    /\ args.a <= loc.a_n /\ loc.a_n < loc.b_n /\ loc.b_n <= args.b
    /\ (loc.b_n - loc.a_n) * (2 ^ loc.n) = args.b - args.a

\* An iteration that did not return moved exactly one end point.
MovesOneEnd ==
    (InGoalSeek /\ pc = "Bisecting" /\ pc' = "Bisecting" /\ loc'.n = loc.n + 1)
    => ((loc'.a_n = loc.a_n) # (loc'.b_n = loc.b_n))

\* C24: for a bracket with a < b, in exact arithmetic, after k iterations of
\* the main loop that did not return, a <= a_k < b_k <= b and
\* b_k - a_k = (b - a)/2^k, each such iteration having moved exactly one end
\* point; and every number goal_seek returns lies in [a, b].
C24_IntervalHalves ==
    /\ []((InGoalSeek /\ args.a < args.b /\ pc \in {"Bisecting", "IterationLimitReached"})
            => HalvedInterval)
    /\ []((InGoalSeek /\ args.a < args.b /\ Returned /\ ret.kind = "num")
            => (args.a <= ret.val /\ ret.val <= args.b))
    /\ [][(InGoalSeek /\ args.a < args.b) => MovesOneEnd]_vars

\* Witness of C24: a call with a < b returned, at the iteration limit after
\* two or more halvings, a number strictly inside the bracket.
C24_Witness ==
    /\ InGoalSeek /\ args.a < args.b /\ pc = "IterationLimitReached" /\ loc.n >= 2
    /\ HalvedInterval /\ args.a < ret.val /\ ret.val < args.b

\* The variant of goal_seek that keeps the value of the unchanged end point:
\* it evaluates the objective at a and b once, before the loop, and in each
\* iteration at the midpoint only; the value at the midpoint becomes the value
\* kept for the end point that moves.  Its state before the first iteration:
CachedStart ==
    LET f_a == ObjectiveAt(args.a).val
        f_b == ObjectiveAt(args.b).val
    IN [st |-> IF SignOfProduct(f_a - args.target, f_b - args.target) >= 0
               THEN "Failed" ELSE "Bisecting",
        a_n |-> args.a, b_n |-> args.b, f_a |-> f_a, f_b |-> f_b, n |-> 0, m |-> args.a]

\* One iteration of the variant from state s (none once it has returned).
CachedStep(s) ==
    IF s.st # "Bisecting" THEN s
    ELSE LET m == Midpoint(s.a_n, s.b_n)
             f_m == ObjectiveAt(m).val
         IN IF SignOfProduct(s.f_a - args.target, f_m - args.target) < 0
            THEN [s EXCEPT !.b_n = m, !.f_b = f_m, !.n = s.n + 1, !.m = m]
            ELSE IF SignOfProduct(s.f_b - args.target, f_m - args.target) < 0
            THEN [s EXCEPT !.a_n = m, !.f_a = f_m, !.n = s.n + 1, !.m = m]
            ELSE IF f_m = args.target
            THEN [s EXCEPT !.st = "Converged", !.n = s.n + 1, !.m = m]
            ELSE [s EXCEPT !.st = "Failed", !.n = s.n + 1, !.m = m]

\* The variant's state after k iterations (fewer if it returned before).
RECURSIVE CachedAfter(_)
CachedAfter(k) ==
    IF k = 0 THEN CachedStart
    ELSE CHOOSE r \in {CachedStep(p) : p \in {CachedAfter(k - 1)}} : TRUE

\* What the variant returns from state s when s is where its run ends.
CachedReturn(s) ==
    CASE s.st = "Failed" -> PyNone
      [] s.st = "Converged" -> Number(s.m)
      [] s.st = "Bisecting" -> Number(Midpoint(s.a_n, s.b_n))

\* C25: for a pure output, the variant of goal_seek that keeps the value of
\* the unchanged end point from one iteration to the next, in place of
\* evaluating f(a_n) and f(b_n) again, visits the same intervals and returns
\* the same result as goal_seek: after every number of iterations the two have
\* the same interval and are at the same point (still bisecting, exact hit,
\* failed), and what goal_seek returns is what the variant returns, for every
\* bracket, target and iteration limit.
C25_CachingVariantEquivalent ==
    (InGoalSeek /\ ObjectiveDefined /\ pc \in GoalSeekStates \ {"Validating"})
    => LET s == CachedAfter(loc.n) IN
        /\ s.n = loc.n /\ s.a_n = loc.a_n /\ s.b_n = loc.b_n
        /\ s.st = (IF pc = "IterationLimitReached" THEN "Bisecting" ELSE pc)
        /\ pc = "IterationLimitReached" => loc.n = args.N
        /\ pc \in GoalSeekTerminal => ret = CachedReturn(s)

\* Witness of C25: goal_seek returned after iterations in which each end point
\* was at least once the unchanged one, whose value the variant did not
\* evaluate again.
C25_Witness ==
    /\ InGoalSeek /\ ObjectiveDefined /\ pc \in {"Converged", "IterationLimitReached"}
    /\ loc.n >= 2 /\ loc.a_n # args.a /\ loc.b_n # args.b
    /\ ret = CachedReturn(CachedAfter(loc.n))

\* The number of scenario points of the simulate call: those of the
\* specification, or the one empty point when scenario_inputs is omitted.
ScenarioPointCount == SizeProduct(ScenarioItems)
\* The invocations of output accessor number j at scenario point number p.
InvocationsOf(p, j) == {e \in 1..Len(evals) : evals[e] = <<p, args.outputs[j]>>}

\* C26: simulate loops over the scenario points only, never over the
\* replications: while it runs it has invoked each requested output accessor
\* exactly once for every scenario point it has completed, and in a call that
\* returned its groups exactly once per scenario point: (scenario points) x
\* (outputs) invocations in all, whatever the number n of replications.
C26_OneInvocationPerPointAndOutput ==
    /\ (args.fn = "simulate" /\ pc \in {"sim_loop", "sim_single", "done"})
        => /\ Len(evals) = Len(loc.results) * Len(args.outputs)
           /\ \A p \in 0..(Len(loc.results) - 1), j \in 1..Len(args.outputs) :
                Cardinality(InvocationsOf(p, j)) = 1
    /\ (args.fn = "simulate" /\ pc = "done")
        => /\ Len(loc.results) = ScenarioPointCount
           /\ Len(evals) = ScenarioPointCount * Len(args.outputs)

\* Witness of C26: a call with MaxReps replications, two outputs and four
\* scenario points returned after 8 invocations.
C26_Witness ==
    /\ args.fn = "simulate" /\ pc = "done" /\ RandomLengths = {MaxReps}
    /\ Len(args.outputs) = 2 /\ ScenarioPointCount = 4 /\ Len(evals) = 8

\* The joint input of replication i: element i of every random input sequence.
ReplicationInputs(i) ==
    [k \in DOMAIN args.random_inputs |-> Num(args.random_inputs[k].val[i])]
\* The caller's model with the inputs of replication i and then the values of
\* the scenario point in place of its own.
ReplicationModel(i, point) ==
    [heap[ModelRef] EXCEPT !.dict = Override(Override(@, ReplicationInputs(i)), point)]

\* C27: for random input sequences of one length n, every scenario point s
\* and every replication i in 1..n: the i-th value of each output in the group
\* of s (the one value the group holds, for an output held as a single number)
\* is the output of the model whose parameters are overridden by element i of
\* every random input sequence, the same i for all of them, and by the values
\* of s; no value pairs element i of one random input with element j # i of
\* another.
C27_ReplicationsAreZipped ==
    (args.fn = "simulate" /\ pc \in {"sim_loop", "sim_single", "done"}
     /\ Cardinality(RandomLengths) = 1)
    => \A g \in 1..Len(loc.results) : \A o \in Names(args.outputs) : \A n \in RandomLengths :
        /\ IsArr(loc.results[g].output[o]) => Len(loc.results[g].output[o].val) = n
        /\ \A i \in 1..n :
            ReplicationValue(loc.results[g], o, i)
                = GetOutput(ReplicationModel(i, loc.results[g].scenario_vals), o)

\* Witness of C27: two random inputs of MaxReps variates each, and a group of
\* a scenario point whose profit takes different values over the replications.
C27_Witness ==
    /\ args.fn = "simulate" /\ pc = "done" /\ RandomLengths = {MaxReps}
    /\ Cardinality(DOMAIN args.random_inputs) = 2
    /\ \E g \in 1..Len(ret.groups) :
        /\ DOMAIN ret.groups[g].scenario_vals # {}
        /\ "profit" \in DOMAIN ret.groups[g].output
        /\ IsArr(ret.groups[g].output["profit"])
        /\ ret.groups[g].output["profit"].val[1] # ret.groups[g].output["profit"].val[2]

\* Nested iteration over the keys of items in the order given, the last key
\* varying fastest: the number of points in which the keys after position p
\* run through all their values, and the point at position i.
RECURSIVE StrideAfter(_, _)
StrideAfter(items, p) ==
    IF p >= Len(items) THEN 1 ELSE Len(items[p + 1][2]) * StrideAfter(items, p + 1)
NestedPoint(items, i) ==
    [k \in KeysOf(items) |->
        LET p == CHOOSE q \in 1..Len(items) : items[q][1] = k
        IN items[p][2][(((i - 1) \div StrideAfter(items, p)) % Len(items[p][2])) + 1]]
\* The scenario values of the rows or groups the call has built so far.
BuiltPoints ==
    IF args.fn = "data_table"
    THEN [i \in 1..Len(loc.results) |-> [k \in KeysOf(ScenarioItems) |-> loc.results[i][k]]]
    ELSE [i \in 1..Len(loc.results) |-> loc.results[i].scenario_vals]
\* The rows or groups come in the nested iteration over items, and a call
\* that returned holds all of them.
InNestedOrder(items) ==
    /\ \A i \in 1..Len(BuiltPoints) : BuiltPoints[i] = NestedPoint(items, i)
    /\ pc = "done" => Len(BuiltPoints) = SizeProduct(items)
SweepRunning ==
    /\ args.fn \in {"data_table", "simulate"} /\ pc \in {"dt_loop", "sim_loop", "done"}
    /\ args.fn = "simulate" => args.scenario_inputs.some

\* C28 as claimed: the rows of data_table and the groups of simulate come in
\* the nested iteration over the keys of the specification as it lists them,
\* the rightmost key varying fastest.
C28_AsClaimed == SweepRunning => InNestedOrder(ScenarioItems)

\* C28, amended: the rows of data_table and the groups of simulate come in the
\* grid's enumeration order, which is the nested iteration over the keys of
\* the specification taken in alphabetical order, the last of them varying
\* fastest; the order is a function of the specification (the same for both
\* ways of listing the same keys).
C28_RowsInSortedNestedOrder ==
    SweepRunning => InNestedOrder(SortSeq(ScenarioItems, KeyBefore))

\* Witness of C28: the table of a specification that lists order_quantity
\* before demand, both with two distinct values: demand varies slowest.
C28_Witness ==
    /\ args.fn = "data_table" /\ pc = "done" /\ Len(ret.rows) = 4
    /\ Len(args.scenario_inputs) = 2
    /\ args.scenario_inputs[1][1] = "order_quantity" /\ args.scenario_inputs[2][1] = "demand"
    /\ ret.rows[1]["demand"] = ret.rows[2]["demand"]
    /\ ret.rows[1]["order_quantity"] # ret.rows[2]["order_quantity"]

\* What the sequential evaluation gives for point i of the grid: the outputs
\* of the caller's model with the random inputs (simulate) and then exactly
\* the values of point i in place of its own.
SequentialOutputs(i) ==
    LET base == IF args.fn = "simulate" THEN args.random_inputs ELSE <<>>
        m == [heap[ModelRef] EXCEPT !.dict = Override(Override(@, base), loc.grid[i])]
    IN [o \in Names(args.outputs) |-> GetOutput(m, o)]
SequentialResult(i) ==
    IF args.fn = "data_table" THEN Update(loc.grid[i], SequentialOutputs(i))
    ELSE ScenarioResult(loc.scenario_base_vals, i - 1, loc.grid[i], SequentialOutputs(i))

\* C29: the scenario points of one call of data_table or simulate are
\* independent as implemented: whatever way the evaluations of the points
\* interleave, each row or group a point has produced is the one the
\* sequential evaluation produces for it.
C29_PointsIndependent ==
    (pc \in {"points", "done"} /\ "at" \in DOMAIN loc)
    => \A i \in 1..Len(loc.grid) :
            loc.at[i] = "done" => loc.results[i] = SequentialResult(i)

\* The step applies update(param_dict) to the clone, whose parameters were d
\* before: every named parameter holds the given value, every other one its
\* old value, no other attribute appears; and a second application of the
\* same mapping to the result changes nothing.
UpdateEffect(d, param_dict) ==
    LET d2 == heap'[CloneRef].dict IN
    /\ DOMAIN d2 = (DOMAIN d) \cup (DOMAIN param_dict)
    /\ \A k \in DOMAIN param_dict : d2[k] = param_dict[k]
    /\ \A k \in (DOMAIN d) \ (DOMAIN param_dict) : d2[k] = d[k]
    /\ param_dict = <<>> => d2 = d
    /\ Update(d2, param_dict) = d2
\* A pass of data_table's loop on a bookstore model: model_clone.update(params).
UpdateOfPoint ==
    /\ args.fn = "data_table" /\ pc = "dt_loop" /\ loc.i <= Len(loc.grid)
    /\ heap[CloneRef].cls = "BookstoreModel"

\* C30: BookstoreModel.update(param_dict) sets every parameter named in
\* param_dict to the given value and leaves every parameter not named
\* unchanged; with the empty mapping it changes nothing; and applying the same
\* mapping twice gives the state one application gives (also when the same
\* scenario point is applied in two passes in a row).
C30_UpdateSetsNamedOnly ==
    [][UpdateOfPoint
        => /\ UpdateEffect(heap[CloneRef].dict, loc.grid[loc.i])
           /\ (loc.i > 1 /\ loc.grid[loc.i - 1] = loc.grid[loc.i])
                => heap'[CloneRef].dict = heap[CloneRef].dict]_vars

\* Witness of C30: the clone after the update of a later pass with a point of
\* two keys, one of them set back to a smaller value: it holds the point's
\* values, and the caller's values in every other parameter.
C30_Witness ==
    /\ args.fn = "data_table" /\ pc = "dt_loop" /\ loc.i = 4
    /\ heap[CloneRef].cls = "BookstoreModel"
    /\ DOMAIN loc.grid[3] = {"demand", "order_quantity"}
    /\ loc.grid[3]["order_quantity"].val < loc.grid[2]["order_quantity"].val
    /\ \A k \in DOMAIN loc.grid[3] : heap[CloneRef].dict[k] = loc.grid[3][k]
    /\ \A k \in DOMAIN heap[ModelRef].dict \ DOMAIN loc.grid[3] :
            heap[CloneRef].dict[k] = heap[ModelRef].dict[k]

====
